---- MODULE Spec2Model ----
(***************************************************************************)
(* The AI update pipeline of python-worker: the two entry points of        *)
(* worker_update.py (preview_update, request_update) over the functions of *)
(* update_manager.py: repository summary, model call, JSON extraction,     *)
(* local application of the changes with backups, and publication of the   *)
(* result through the GitHub git-data API (ref, blobs, tree, commit, ref   *)
(* update, pull request).                                                  *)
(*                                                                         *)
(* A text is a sequence of one-character strings; a file holds a sequence  *)
(* of bytes (integers).  A relative path is the sequence of its            *)
(* "/"-separated segments; a location is the sequence of segments of an    *)
(* absolute, normalised path.                                              *)
(***************************************************************************)
EXTENDS Integers, Sequences, FiniteSets, TLC

VARIABLES
    pc,             \* position of the worker: idle, a stage of a flow, or done
    entry,          \* entry point of the current flow: "preview" | "request"
    args,           \* string arguments of the current call
    fs,             \* local filesystem: location -> bytes, for the regular files
    fs0,            \* the filesystem as it was when the current call began
    response,       \* raw answer of the completion API
    changes,        \* js.get("changes", []) of the parsed patch document
    idx,            \* apply_changes: 1-based position in changes
    phase,          \* apply_changes: "begin" | "write" within one change
    results,        \* apply_changes: the results list
    apply_result,   \* request_update: <<>> while unassigned, else <<list>>
    now,            \* int(time.time())
    new_branch,     \* request_update: timestamp of "ai-update-<timestamp>"
    base_sha,       \* request_update: value returned by ensure_branch
    blob_map,       \* request_update: path -> blob sha
    new_commit_sha, \* request_update: id of the commit created
    refs,           \* remote: branch -> commit id
    commits,        \* remote: commit id -> [parents, tree]
    blobs,          \* remote: blob shas stored
    pulls,          \* remote: head branches of the pull requests opened
    tree_items,     \* entries of the last POST /git/trees of the current flow
    ghlog,          \* calls made to the GitHub API in the current flow
    openai_calls,   \* calls made to the completion API in the current flow
    flows,          \* flows started so far
    result          \* value handed back to the caller of the entry point

vars == <<pc, entry, args, fs, fs0, response, changes, idx, phase, results,
          apply_result, now, new_branch, base_sha, blob_map, new_commit_sha,
          refs, commits, blobs, pulls, tree_items, ghlog, openai_calls,
          flows, result>>

-----------------------------------------------------------------------------
(* Bounds of the model *)

MaxChanges == 2     \* longest "changes" list of a patch document
MaxFlows == 2       \* flows handled one after the other by the worker loop
MaxTime == 1        \* latest clock value, in seconds
MaxText == 4        \* longest answer of the completion API, in tokens

-----------------------------------------------------------------------------
(* Texts and bytes *)

NL == "\n"
CR == "\r"

\* os.linesep of the platform the worker runs on (POSIX)
OsLinesep == <<NL>>

\* str.strip(): whitespace removed at both ends
IsSpace(c) == c \in {" ", NL, CR, "\t"}

RECURSIVE LStrip(_)
LStrip(s) == IF s # <<>> /\ IsSpace(Head(s)) THEN LStrip(Tail(s)) ELSE s

RECURSIVE RStrip(_)
RStrip(s) ==
    IF s # <<>> /\ IsSpace(s[Len(s)]) THEN RStrip(SubSeq(s, 1, Len(s) - 1)) ELSE s

Strip(s) == RStrip(LStrip(s))

\* a check that forgets strip()
BlankUnstripped(s) == s = <<>>

\* "not s.strip()"
Blank(s) == Strip(s) = <<>>

\* UTF-8 encoding of one character
Utf8Char(c) ==
    CASE c = NL  -> <<10>>
      [] c = CR  -> <<13>>
      [] c = "n" -> <<110>>
      [] c = "o" -> <<111>>
      [] c = "E" -> <<195, 137>>     \* U+00C9, two bytes
      [] OTHER   -> <<63>>

RECURSIVE Utf8(_)
Utf8(s) == IF s = <<>> THEN <<>> ELSE Utf8Char(Head(s)) \o Utf8(Tail(s))

\* a translation to "\r\n" line ends
RECURSIVE CrLfNewlines(_)
CrLfNewlines(s) ==
    IF s = <<>> THEN <<>>
    ELSE (IF Head(s) = NL THEN <<CR, NL>> ELSE <<Head(s)>>)
             \o CrLfNewlines(Tail(s))

\* text-mode output with newline=None: every "\n" becomes os.linesep
RECURSIVE TranslateNewlines(_)
TranslateNewlines(s) ==
    IF s = <<>> THEN <<>>
    ELSE (IF Head(s) = NL THEN OsLinesep ELSE <<Head(s)>>)
             \o TranslateNewlines(Tail(s))

-----------------------------------------------------------------------------
(* Paths and the local filesystem *)

\* base = Path(__file__).resolve().parent.parent, an absolute path
BaseDir == <<"", "app">>

\* default of apply_changes' backup_dir parameter
BackupDirName == ".ai_patch_backups"

\* os.path.isabs on a path given by its segments: "/x" splits into "", "x"
IsAbs(p) == p # <<>> /\ p[1] = ""

\* os.path.join(a, b): an absolute b discards a
Join(a, b) == IF IsAbs(b) THEN b ELSE a \o b

\* os.path.basename
Basename(p) == IF p = <<>> THEN "" ELSE p[Len(p)]

\* the file the operating system opens for a path: "", "." and ".." resolved
RECURSIVE Walk(_, _)
Walk(stack, rest) ==
    IF rest = <<>> THEN stack
    ELSE LET s == Head(rest) IN
         IF s \in {"", "."} THEN Walk(stack, Tail(rest))
         ELSE IF s = ".."
              THEN Walk(IF stack = <<>> THEN <<>>
                        ELSE SubSeq(stack, 1, Len(stack) - 1), Tail(rest))
              ELSE Walk(Append(stack, s), Tail(rest))

Location(p) == Walk(<<>>, p)

\* full_path of a change: os.path.join(base_dir, rel.replace("/", os.sep))
FullPath(rel) == Join(BaseDir, rel)

\* where the previous bytes of full_path are saved
BackupPath == Join(BaseDir, <<BackupDirName>>)

\* a backup named after the directory of the file and its base name
BackupFileByDirectory(full) ==
    Join(BackupPath, <<full[Len(full) - 1] \o "-" \o Basename(full) \o ".bak">>)

\* a backup name without the ".bak" suffix
BackupFileBare(full) == Join(BackupPath, <<Basename(full)>>)

BackupFile(full) == Join(BackupPath, <<Basename(full) \o ".bak">>)

\* os.path.exists, for the regular files of the model
Exists(f, p) == Location(p) \in DOMAIN f

\* open(p, "rb").read()
ReadBytes(f, p) == f[Location(p)]

\* open(p, "wb").write(bytes): the file is created or replaced
WriteBytes(f, p, bytes) ==
    [l \in DOMAIN f \cup {Location(p)} |-> IF l = Location(p) THEN bytes ELSE f[l]]

\* open(p, "w", encoding="utf-8").write(text)
WriteText(f, p, text) == WriteBytes(f, p, Utf8(TranslateNewlines(text)))

\* os.remove(p)
Remove(f, p) == [l \in DOMAIN f \ {Location(p)} |-> f[l]]

-----------------------------------------------------------------------------
(* Patch documents *)

\* a change without the "action" key
NoKey == "<no key>"

Paths == { <<"a.txt">>, <<"d", "a.txt">> }
Contents == { <<"n", NL>>, <<"E">> }
OldBytes == <<111>>
OtherBytes == <<100>>

\* the bytes a location holds before the first call: the files directly
\* under a directory of the root hold other bytes than the deeper ones
InitialBytes(l) == IF Len(l) <= 2 THEN OldBytes ELSE OtherBytes

Changes ==
    [path : Paths, action : {"create", "modify", NoKey}, content : Contents]
      \cup [path : Paths, action : {"delete", "rename"}, content : {<<>>}]

SeqsUpTo(S, n) == UNION { [1..k -> S] : k \in 0..n }

\* ch.get('action', "modify") of apply_changes
ApplyAction(ch) == IF ch.action = NoKey THEN "modify" ELSE ch.action

\* c.get("action") of request_update: None when the key is missing
PublishAction(ch) == IF ch.action = NoKey THEN "None" ELSE ch.action

-----------------------------------------------------------------------------
(* Answers of the completion API and parse_ai_response.  An answer is a     *)
(* sequence of tokens: "{" and "}", "k" for a member name with its colon,   *)
(* "v" for a scalar value, "p" for any other text.                          *)

Tokens == {"{", "}", "k", "v", "p"}

\* positions of a token in a text
Positions(text, tok) == { j \in 1..Len(text) : text[j] = tok }

Min(S) == CHOOSE x \in S : \A y \in S : x <= y
Max(S) == CHOOSE x \in S : \A y \in S : x >= y

\* re.search(r'{[\s\S]*}', text): from the first "{" that has a "}" after it
\* to the last "}" of the text; <<>> when there is no match
RegexSearch(text) ==
    LET opens == Positions(text, "{")
        closes == Positions(text, "}")
    IN IF opens = {} \/ closes = {} \/ Max(closes) < Min(opens)
       THEN <<>>
       ELSE SubSeq(text, Min(opens), Max(closes))

\* json.loads accepts the span: an object, empty or of one member whose value
\* is a scalar or an object
RECURSIVE JsonObject(_)
JsonObject(s) ==
    \/ s = <<"{", "}">>
    \/ /\ Len(s) >= 4
       /\ s[1] = "{" /\ s[2] = "k" /\ s[Len(s)] = "}"
       /\ \/ SubSeq(s, 3, Len(s) - 1) = <<"v">>
          \/ JsonObject(SubSeq(s, 3, Len(s) - 1))

\* parse_ai_response: "ValueError", "JSONDecodeError" or "" for a document
ParseOutcome(text) ==
    IF RegexSearch(text) = <<>> THEN "ValueError"
    ELSE IF ~JsonObject(RegexSearch(text)) THEN "JSONDecodeError"
    ELSE ""

\* answers of the flows that go on to apply: prose, braces around prose, and
\* a document between prose
FlowTexts ==
    { <<"p">>, <<"p", "{", "p", "}">>, <<"p", "{", "k", "v", "}", "p">> }

\* every answer of up to MaxText tokens
AllTexts == SeqsUpTo(Tokens, MaxText)

-----------------------------------------------------------------------------
(* Result envelopes.  keys is the set of keys of the dict; applied is       *)
(* meaningful when "applied" is a key, error when "error" is.               *)

NoResult ==
    [kind |-> "none", ok |-> FALSE, keys |-> {}, error |-> "", applied |-> <<>>]

Envelope(ok, keys, error, applied) ==
    [kind |-> "return", ok |-> ok, keys |-> keys, error |-> error,
     applied |-> applied]

\* an entry point without its except clause: the exception leaves it
Propagated(e) ==
    [kind |-> "raise", ok |-> FALSE, keys |-> {}, error |-> e, applied |-> <<>>]

\* return {"ok": False, "error": "..."} of a failed validation
Invalid(msg) == Envelope(FALSE, {"ok", "error"}, msg, <<>>)

\* the except clause of worker_update.preview_update
PreviewExcept(e) == Envelope(FALSE, {"ok", "error", "trace"}, e, <<>>)

\* the except clause of worker_update.request_update
RequestExcept(e) == Envelope(FALSE, {"ok", "error", "trace"}, e, <<>>)

\* worker_update.preview_update around a returned preview
PreviewOk == Envelope(TRUE, {"ok", "preview"}, "", <<>>)

\* update_manager.request_update, pull request opened
PublishOk(applied) ==
    Envelope(TRUE, {"ok", "pr_url", "summary", "applied"}, "", applied)

\* a refusal reported without the local results
PublishFailedBare(applied) ==
    Envelope(FALSE, {"ok", "error"}, "pr.text", <<>>)

\* update_manager.request_update, pull request refused
PublishFailed(applied) ==
    Envelope(FALSE, {"ok", "error", "applied"}, "pr.text", applied)

-----------------------------------------------------------------------------
(* Validation of the string arguments *)

StrVals == { <<>>, <<" ">>, <<"k">> }

\* the checks of preview_update, in order; "" when all pass
PreviewValidate(a) ==
    IF Blank(a.request_text) THEN "Empty request_text"
    ELSE IF Blank(a.openai_key) THEN "Missing OpenAI key"
    ELSE ""

\* the checks of request_update, in order; "" when all pass
RequestValidate(a) ==
    IF Blank(a.request_text) THEN "Empty request_text"
    ELSE IF Blank(a.openai_key) THEN "Missing OpenAI key"
    ELSE IF Blank(a.gh_token) THEN "Missing GitHub token"
    ELSE IF Blank(a.gh_owner) THEN "Missing GitHub owner"
    ELSE IF Blank(a.gh_repo) THEN "Missing GitHub repo name"
    ELSE ""

PreviewArgs ==
    [request_text : StrVals, openai_key : StrVals,
     gh_token : {<<>>}, gh_owner : {<<>>}, gh_repo : {<<>>}]

RequestArgs ==
    [request_text : StrVals, openai_key : StrVals,
     gh_token : StrVals, gh_owner : StrVals, gh_repo : StrVals]

-----------------------------------------------------------------------------
(* The remote repository, with the semantics of GitHub's git-data API *)

\* new_branch = f"ai-update-{int(time.time())}"
BranchName(t) == "ai-update-" \o ToString(t)

\* the sha the host answers for a blob: determined by the content alone
GitBlobSha(text) == text

InitialTree == (<<"a.txt">> :> <<"o">>)
InitialCommits == << [parents |-> <<>>, tree |-> InitialTree] >>
InitialRefs == ("main" :> 1)

\* a files list that takes every change
RECURSIVE FilesOfAll(_)
FilesOfAll(cs) ==
    IF cs = <<>> THEN <<>>
    ELSE << [path |-> Head(cs).path, content |-> Head(cs).content] >>
             \o FilesOfAll(Tail(cs))

\* files = [{"path", "content"} for c in changes if c.get("action") in (...)]
RECURSIVE FilesOf(_)
FilesOf(cs) ==
    IF cs = <<>> THEN <<>>
    ELSE (IF PublishAction(Head(cs)) \in {"create", "modify"}
          THEN << [path |-> Head(cs).path, content |-> Head(cs).content] >>
          ELSE <<>>) \o FilesOf(Tail(cs))

\* blob_map after the first k blobs: a dict, so a later file of the same path
\* replaces the earlier one
BlobMapOf(files, k) ==
    [p \in { files[j].path : j \in 1..k } |->
        LET last == CHOOSE j \in 1..k :
                        /\ files[j].path = p
                        /\ \A m \in (j + 1)..k : files[m].path # p
        IN GitBlobSha(files[last].content)]

\* tree_items of create_tree_and_commit
TreeItemsOf(bm) ==
    { [path |-> p, mode |-> "100644", type |-> "blob", sha |-> bm[p]] :
          p \in DOMAIN bm }

\* POST /git/trees with base_tree: the entries are laid over the base tree
Overlay(base, items) ==
    [p \in DOMAIN base \cup { it.path : it \in items } |->
        IF \E it \in items : it.path = p
        THEN (CHOOSE it \in items : it.path = p).sha
        ELSE base[p]]

\* a is b or one of its ancestors
RECURSIVE IsAncestor(_, _, _)
IsAncestor(cm, a, b) ==
    \/ a = b
    \/ \E j \in 1..Len(cm[b].parents) : IsAncestor(cm, a, cm[b].parents[j])

\* PATCH /git/refs/heads/<branch> {"sha": s} without "force": accepted only
\* for an existing ref and a fast-forward
PatchRefAccepted(rf, cm, branch, sha) ==
    /\ branch \in DOMAIN rf
    /\ IsAncestor(cm, rf[branch], sha)

-----------------------------------------------------------------------------
(* Initial state: the worker waits for a message; the base directory holds  *)
(* some of the files the patches name; the remote has its main branch.      *)

NoArgs ==
    [request_text |-> <<>>, openai_key |-> <<>>,
     gh_token |-> <<>>, gh_owner |-> <<>>, gh_repo |-> <<>>]

NoResponse == [text |-> <<>>, changes |-> <<>>]

FsInits ==
    { [l \in S |-> InitialBytes(l)] :
          S \in SUBSET { Location(FullPath(p)) : p \in Paths } }

\* paths that leave the base directory: through "..", and absolute
OutsidePaths == { <<"a.txt">>, <<"..", "a.txt">>, <<"", "etc", "a.txt">> }

OutsideChanges ==
    [path : OutsidePaths, action : {"modify", "delete", "rename"},
     content : {<<"E">>}]

FsInitsOutside ==
    { [l \in S |-> InitialBytes(l)] :
          S \in SUBSET { Location(FullPath(p)) : p \in OutsidePaths } }

InitWith(files) ==
    /\ pc = "idle"
    /\ entry = ""
    /\ args = NoArgs
    /\ fs \in files
    /\ fs0 = fs
    /\ response = NoResponse
    /\ changes = <<>>
    /\ idx = 0
    /\ phase = "begin"
    /\ results = <<>>
    /\ apply_result = <<>>
    /\ now = 0
    /\ new_branch = ""
    /\ base_sha = 0
    /\ blob_map = <<>>
    /\ new_commit_sha = 0
    /\ refs = InitialRefs
    /\ commits = InitialCommits
    /\ blobs = {}
    /\ pulls = {}
    /\ tree_items = {}
    /\ ghlog = <<>>
    /\ openai_calls = 0
    /\ flows = 0
    /\ result = NoResult

Init == InitWith(FsInits)

InitOutside == InitWith(FsInitsOutside)

remote == <<refs, commits, blobs, pulls>>
applier == <<idx, phase, results>>
publisher == <<apply_result, new_branch, base_sha, blob_map, new_commit_sha,
               tree_items, ghlog>>

-----------------------------------------------------------------------------
(* The entry points of worker_update.py *)

\* an exception raised below the entry point reaches its except clause
Raise(e) ==
    /\ pc' = "done"
    /\ result' = IF entry = "preview" THEN PreviewExcept(e) ELSE RequestExcept(e)

\* the locals of a call are gone once it has returned
FreshCall ==
    /\ response' = NoResponse
    /\ changes' = <<>>
    /\ idx' = 0
    /\ phase' = "begin"
    /\ results' = <<>>
    /\ apply_result' = <<>>
    /\ new_branch' = ""
    /\ base_sha' = 0
    /\ blob_map' = <<>>
    /\ new_commit_sha' = 0
    /\ tree_items' = {}
    /\ ghlog' = <<>>
    /\ openai_calls' = 0

\* worker_update.preview_update up to the call of update_manager.preview_update
StartPreview ==
    /\ pc = "idle"
    /\ \E a \in PreviewArgs :
         /\ args' = a
         /\ IF PreviewValidate(a) # ""
            THEN pc' = "done" /\ result' = Invalid(PreviewValidate(a))
            ELSE pc' = "summary" /\ result' = NoResult
    /\ entry' = "preview"
    /\ flows' = flows + 1
    /\ UNCHANGED <<fs, fs0, response, changes, applier, publisher, now, remote,
                   openai_calls>>

\* worker_update.request_update up to the call of update_manager.request_update
StartRequest ==
    /\ pc = "idle"
    /\ \E a \in RequestArgs :
         /\ args' = a
         /\ IF RequestValidate(a) # ""
            THEN pc' = "done" /\ result' = Invalid(RequestValidate(a))
            ELSE pc' = "summary" /\ result' = NoResult
    /\ entry' = "request"
    /\ flows' = flows + 1
    /\ UNCHANGED <<fs, fs0, response, changes, applier, publisher, now, remote,
                   openai_calls>>

\* compute_repo_summary: reads the tree, skips what it cannot read
ComputeRepoSummary ==
    /\ pc = "summary"
    /\ pc' = "call_openai"
    /\ UNCHANGED <<entry, args, fs0, fs, response, changes, applier, publisher, now,
                   remote, openai_calls, flows, result>>

\* call_openai: one POST; raise_for_status on the answer.  The answer is a
\* text; changes is the "changes" member of the document it holds, if any.
CallOpenAI(texts, docs) ==
    /\ pc = "call_openai"
    /\ openai_calls' = openai_calls + 1
    /\ \/ /\ Raise("call_openai")
          /\ UNCHANGED response
       \/ /\ \E t \in texts :
                IF ParseOutcome(t) = ""
                THEN \E d \in docs : response' = [text |-> t, changes |-> d]
                ELSE response' = [text |-> t, changes |-> <<>>]
          /\ pc' = "parse"
          /\ UNCHANGED result
    /\ UNCHANGED <<entry, args, fs0, fs, changes, applier, publisher, now, remote,
                   flows>>

\* a preview that goes on to apply the parsed changes, as request_update does
ParseAIResponseApplying ==
    /\ pc = "parse"
    /\ \/ /\ ParseOutcome(response.text) # ""
          /\ Raise(ParseOutcome(response.text))
          /\ UNCHANGED <<changes, applier>>
       \/ /\ ParseOutcome(response.text) = ""
          /\ changes' = response.changes
          /\ pc' = "apply"
          /\ idx' = 1
          /\ phase' = "begin"
          /\ results' = <<>>
          /\ UNCHANGED result
    /\ UNCHANGED <<entry, args, fs0, fs, response, publisher, now, remote,
                   openai_calls, flows>>

\* parse_ai_response, then the end of preview_update or the start of
\* apply_changes in request_update
ParseAIResponse ==
    /\ pc = "parse"
    /\ \/ /\ ParseOutcome(response.text) # ""
          /\ Raise(ParseOutcome(response.text))
          /\ UNCHANGED <<changes, applier>>
       \/ /\ ParseOutcome(response.text) = ""
          /\ entry = "preview"
          /\ pc' = "done"
          /\ result' = PreviewOk
          /\ UNCHANGED <<changes, applier>>
       \/ /\ ParseOutcome(response.text) = ""
          /\ entry = "request"
          /\ changes' = response.changes
          /\ pc' = "apply"
          /\ idx' = 1
          /\ phase' = "begin"
          /\ results' = <<>>
          /\ UNCHANGED result
    /\ UNCHANGED <<entry, args, fs0, fs, response, publisher, now, remote,
                   openai_calls, flows>>

-----------------------------------------------------------------------------
(* apply_changes, one change after the other *)

Applying == pc = "apply" /\ idx <= Len(changes)
Current == changes[idx]
CurrentFull == FullPath(Current.path)

Status(rel, st) == [path |-> rel, status |-> st]

\* a backup that keeps the first saved version
BackupOldKeepFirst(f, full) ==
    IF Exists(f, BackupFile(full)) THEN f
    ELSE WriteBytes(f, BackupFile(full), ReadBytes(f, full))

\* the old version goes to <backup_path>/<basename>.bak
BackupOld(f, full) == WriteBytes(f, BackupFile(full), ReadBytes(f, full))

\* create / modify, first half: back up the old version if there is one
ApplyBackup ==
    /\ Applying
    /\ phase = "begin"
    /\ ApplyAction(Current) \in {"create", "modify"}
    /\ \/ /\ Exists(fs, CurrentFull)
          /\ fs' = BackupOld(fs, CurrentFull)
          /\ phase' = "write"
          /\ UNCHANGED <<pc, result>>
       \/ /\ Exists(fs, CurrentFull)
          /\ Raise("OSError")
          /\ UNCHANGED <<fs, phase>>
       \/ /\ ~Exists(fs, CurrentFull)
          /\ phase' = "write"
          /\ UNCHANGED <<fs, pc, result>>
    /\ UNCHANGED <<entry, args, fs0, response, changes, idx, results, publisher, now,
                   remote, openai_calls, flows>>

\* a write whose failure undoes the changes made so far
ApplyWriteRollingBack ==
    /\ Applying
    /\ phase = "write"
    /\ \/ /\ fs' = WriteText(fs, CurrentFull, Current.content)
          /\ results' = Append(results, Status(Current.path, "written"))
          /\ idx' = idx + 1
          /\ phase' = "begin"
          /\ UNCHANGED <<pc, result>>
       \/ /\ Raise("OSError")
          /\ fs' = fs0
          /\ UNCHANGED <<results, idx, phase>>
    /\ UNCHANGED <<entry, args, fs0, response, changes, publisher, now, remote,
                   openai_calls, flows>>

\* create / modify, second half: write the content, record "written".
\* open(full_path, "w") may fail, or truncate the file and the write then fail.
ApplyWrite ==
    /\ Applying
    /\ phase = "write"
    /\ \/ /\ fs' = WriteText(fs, CurrentFull, Current.content)
          /\ results' = Append(results, Status(Current.path, "written"))
          /\ idx' = idx + 1
          /\ phase' = "begin"
          /\ UNCHANGED <<pc, result>>
       \/ /\ Raise("OSError")
          /\ UNCHANGED <<fs, results, idx, phase>>
       \/ /\ Raise("OSError")
          /\ fs' = WriteBytes(fs, CurrentFull, <<>>)
          /\ UNCHANGED <<results, idx, phase>>
    /\ UNCHANGED <<entry, args, fs0, response, changes, publisher, now, remote,
                   openai_calls, flows>>

\* a delete that removes without looking
ApplyDeleteUnchecked ==
    /\ Applying
    /\ phase = "begin"
    /\ ApplyAction(Current) = "delete"
    /\ \/ /\ Exists(fs, CurrentFull)
          /\ fs' = Remove(fs, CurrentFull)
          /\ results' = Append(results, Status(Current.path, "deleted"))
          /\ idx' = idx + 1
          /\ UNCHANGED <<pc, result>>
       \/ /\ Raise("OSError")
          /\ UNCHANGED <<fs, results, idx>>
    /\ UNCHANGED <<entry, args, fs0, response, changes, phase, publisher, now,
                   remote, openai_calls, flows>>

\* delete
ApplyDelete ==
    /\ Applying
    /\ phase = "begin"
    /\ ApplyAction(Current) = "delete"
    /\ \/ /\ Exists(fs, CurrentFull)
          /\ fs' = Remove(fs, CurrentFull)
          /\ results' = Append(results, Status(Current.path, "deleted"))
          /\ idx' = idx + 1
          /\ UNCHANGED <<pc, result>>
       \/ /\ Exists(fs, CurrentFull)
          /\ Raise("OSError")
          /\ UNCHANGED <<fs, results, idx>>
       \/ /\ ~Exists(fs, CurrentFull)
          /\ results' = Append(results, Status(Current.path, "not_found"))
          /\ idx' = idx + 1
          /\ UNCHANGED <<fs, pc, result>>
    /\ UNCHANGED <<entry, args, fs0, response, changes, phase, publisher, now,
                   remote, openai_calls, flows>>

\* an applier that records nothing for an action it does not know
ApplyUnknownSkipping ==
    /\ Applying
    /\ phase = "begin"
    /\ ApplyAction(Current) \notin {"create", "modify", "delete"}
    /\ idx' = idx + 1
    /\ UNCHANGED <<pc, entry, args, fs, fs0, response, changes, phase, results,
                   publisher, now, remote, openai_calls, flows, result>>

\* any other action
ApplyUnknown ==
    /\ Applying
    /\ phase = "begin"
    /\ ApplyAction(Current) \notin {"create", "modify", "delete"}
    /\ results' = Append(results, Status(Current.path, "unknown_action"))
    /\ idx' = idx + 1
    /\ UNCHANGED <<pc, entry, args, fs, fs0, response, changes, phase, publisher,
                   now, remote, openai_calls, flows, result>>

\* an applier that may return before the last change
ApplyReturnEarly ==
    /\ pc = "apply"
    /\ phase = "begin"
    /\ apply_result' = <<results>>
    /\ new_branch' = BranchName(now)
    /\ pc' = "ensure_branch"
    /\ UNCHANGED <<entry, args, fs0, fs, response, changes, applier, base_sha,
                   blob_map, new_commit_sha, tree_items, ghlog, now, remote,
                   openai_calls, flows, result>>

\* return results; request_update goes on to the files list and the branch name
ApplyReturn ==
    /\ pc = "apply"
    /\ idx > Len(changes)
    /\ apply_result' = <<results>>
    /\ new_branch' = BranchName(now)
    /\ pc' = "ensure_branch"
    /\ UNCHANGED <<entry, args, fs0, fs, response, changes, applier, base_sha,
                   blob_map, new_commit_sha, tree_items, ghlog, now, remote,
                   openai_calls, flows, result>>

-----------------------------------------------------------------------------
(* Publication: the calls of request_update to the GitHub API *)

Calls(n, call) == [j \in 1..n |-> call]

\* ensure_branch: read the tip of main, try to create the new ref
EnsureBranch ==
    /\ pc = "ensure_branch"
    /\ \/ /\ ghlog' = ghlog \o <<"GET ref">>            \* raise_for_status
          /\ Raise("ensure_branch")
          /\ UNCHANGED <<base_sha, refs>>
       \/ /\ ghlog' = ghlog \o <<"GET ref", "POST refs">>  \* no answer to the POST
          /\ Raise("ensure_branch: no answer")
          /\ UNCHANGED <<base_sha, refs>>
       \/ /\ new_branch \notin DOMAIN refs               \* 201 Created
          /\ ghlog' = ghlog \o <<"GET ref", "POST refs">>
          /\ refs' = (new_branch :> refs["main"]) @@ refs
          /\ base_sha' = refs["main"]
          /\ pc' = "create_blobs"
          /\ UNCHANGED result
       \/ /\ ghlog' = ghlog \o <<"GET ref", "POST refs">>  \* error status, ignored
          /\ base_sha' = refs["main"]
          /\ pc' = "create_blobs"
          /\ UNCHANGED <<refs, result>>
    /\ UNCHANGED <<entry, args, fs0, fs, response, changes, applier, apply_result,
                   new_branch, blob_map, new_commit_sha, tree_items, now,
                   commits, blobs, pulls, openai_calls, flows>>

\* create_blobs: one POST per file, stopping at the first that fails
CreateBlobs ==
    /\ pc = "create_blobs"
    /\ LET files == FilesOf(changes) IN
         \/ \E k \in 0..(Len(files) - 1) :
              /\ ghlog' = ghlog \o Calls(k + 1, "POST blobs")
              /\ blobs' = blobs \cup { GitBlobSha(files[j].content) : j \in 1..k }
              /\ Raise("create_blobs")
              /\ UNCHANGED blob_map
         \/ /\ ghlog' = ghlog \o Calls(Len(files), "POST blobs")
            /\ blobs' = blobs \cup
                          { GitBlobSha(files[j].content) : j \in 1..Len(files) }
            /\ blob_map' = BlobMapOf(files, Len(files))
            /\ pc' = "create_tree_and_commit"
            /\ UNCHANGED result
    /\ UNCHANGED <<entry, args, fs0, fs, response, changes, applier, apply_result,
                   new_branch, base_sha, new_commit_sha, tree_items, now, refs,
                   commits, pulls, openai_calls, flows>>

\* a commit made on top of the newest commit of the repository
NewCommitOnLatest(cm, base, items) ==
    [parents |-> <<Len(cm)>>, tree |-> Overlay(cm[Len(cm)].tree, items)]

\* the commit of create_tree_and_commit: "parents": [base_sha], the tree is
\* the items laid over the tree of the commit base_sha
NewCommit(cm, base, items) ==
    [parents |-> <<base>>, tree |-> Overlay(cm[base].tree, items)]

\* create_tree_and_commit: read the base tree, post the tree, post the commit
CreateTreeAndCommit ==
    /\ pc = "create_tree_and_commit"
    /\ \/ /\ ghlog' = ghlog \o <<"GET commit">>
          /\ Raise("create_tree")
          /\ UNCHANGED <<tree_items, commits, new_commit_sha>>
       \/ /\ ghlog' = ghlog \o <<"GET commit", "POST trees">>
          /\ tree_items' = TreeItemsOf(blob_map)
          /\ Raise("create_tree")
          /\ UNCHANGED <<commits, new_commit_sha>>
       \/ /\ ghlog' = ghlog \o <<"GET commit", "POST trees", "POST commits">>
          /\ tree_items' = TreeItemsOf(blob_map)
          /\ Raise("create_commit")
          /\ UNCHANGED <<commits, new_commit_sha>>
       \/ /\ ghlog' = ghlog \o <<"GET commit", "POST trees", "POST commits">>
          /\ tree_items' = TreeItemsOf(blob_map)
          /\ commits' = Append(commits,
                                NewCommit(commits, base_sha, TreeItemsOf(blob_map)))
          /\ new_commit_sha' = Len(commits) + 1
          /\ pc' = "update_branch"
          /\ UNCHANGED result
    /\ UNCHANGED <<entry, args, fs0, fs, response, changes, applier, apply_result,
                   new_branch, base_sha, blob_map, now, refs, blobs, pulls,
                   openai_calls, flows>>

\* an update of the ref that undoes the local changes when it fails
UpdateBranchUndoing ==
    /\ pc = "update_branch"
    /\ ghlog' = ghlog \o <<"PATCH ref">>
    /\ \/ /\ Raise("update_branch: no answer")
          /\ fs' = fs0
          /\ UNCHANGED refs
       \/ /\ ~PatchRefAccepted(refs, commits, new_branch, new_commit_sha)
          /\ Raise("update_branch: 422")
          /\ fs' = fs0
          /\ UNCHANGED refs
       \/ /\ PatchRefAccepted(refs, commits, new_branch, new_commit_sha)
          /\ refs' = [refs EXCEPT ![new_branch] = new_commit_sha]
          /\ pc' = "create_pull_request"
          /\ UNCHANGED <<fs, result>>
    /\ UNCHANGED <<entry, args, fs0, response, changes, applier, apply_result,
                   new_branch, base_sha, blob_map, new_commit_sha, tree_items,
                   now, commits, blobs, pulls, openai_calls, flows>>

\* update_branch: PATCH the ref with {"sha": new_commit_sha}; raise_for_status
UpdateBranch ==
    /\ pc = "update_branch"
    /\ ghlog' = ghlog \o <<"PATCH ref">>
    /\ \/ /\ Raise("update_branch: no answer")
          /\ UNCHANGED refs
       \/ /\ ~PatchRefAccepted(refs, commits, new_branch, new_commit_sha)
          /\ Raise("update_branch: 422")
          /\ UNCHANGED refs
       \/ /\ PatchRefAccepted(refs, commits, new_branch, new_commit_sha)
          /\ refs' = [refs EXCEPT ![new_branch] = new_commit_sha]
          /\ pc' = "create_pull_request"
          /\ UNCHANGED result
    /\ UNCHANGED <<entry, args, fs0, fs, response, changes, applier, apply_result,
                   new_branch, base_sha, blob_map, new_commit_sha, tree_items,
                   now, commits, blobs, pulls, openai_calls, flows>>

\* create_pull_request and the try/except around pr.raise_for_status()
CreatePullRequest ==
    /\ pc = "create_pull_request"
    /\ ghlog' = ghlog \o <<"POST pulls">>
    /\ \/ /\ Raise("create_pull_request")
          /\ UNCHANGED pulls
       \/ /\ pc' = "done"
          /\ result' = PublishFailed(apply_result[1])
          /\ UNCHANGED pulls
       \/ /\ pulls' = pulls \cup {new_branch}
          /\ pc' = "done"
          /\ result' = PublishOk(apply_result[1])
    /\ UNCHANGED <<entry, args, fs0, fs, response, changes, applier, apply_result,
                   new_branch, base_sha, blob_map, new_commit_sha, tree_items,
                   now, refs, commits, blobs, openai_calls, flows>>

-----------------------------------------------------------------------------
(* The worker loop and the clock *)

\* worker.main: the answer is written, the next message is read
NextMessage ==
    /\ pc = "done"
    /\ flows < MaxFlows
    /\ pc' = "idle"
    /\ entry' = ""
    /\ args' = NoArgs
    /\ result' = NoResult
    /\ fs0' = fs
    /\ FreshCall
    /\ UNCHANGED <<fs, now, remote, flows>>

\* time passes while the worker waits for a message
Tick ==
    /\ pc = "idle"
    /\ now < MaxTime
    /\ now' = now + 1
    /\ UNCHANGED <<pc, entry, args, fs, fs0, response, changes, applier, publisher,
                   remote, openai_calls, flows, result>>

-----------------------------------------------------------------------------
(* Specifications *)

\* patch documents with up to MaxChanges changes
PatchDocs == SeqsUpTo(Changes, MaxChanges)

\* patch documents of one change to a.txt
SmallDocs ==
    { <<c>> : c \in { ch \in Changes :
                         ch.path = <<"a.txt">> /\ ch.content \in {<<>>, <<"E">>} } }

Flow(docs) ==
    \/ StartPreview
    \/ StartRequest
    \/ ComputeRepoSummary
    \/ CallOpenAI(FlowTexts, docs)
    \/ ParseAIResponse
    \/ ApplyBackup
    \/ ApplyWrite
    \/ ApplyDelete
    \/ ApplyUnknown
    \/ ApplyReturn
    \/ EnsureBranch
    \/ CreateBlobs
    \/ CreateTreeAndCommit
    \/ UpdateBranch
    \/ CreatePullRequest
    \/ Tick

\* one call of an entry point, any patch document
Next == Flow(PatchDocs)

Spec == Init /\ [][Next]_vars

\* calls one after the other, as the worker loop makes them
NextLoop == Flow(SmallDocs) \/ NextMessage

SpecLoop == Init /\ [][NextLoop]_vars

\* one call of an entry point, patches whose paths may leave the base directory
OutsideDocs == SeqsUpTo(OutsideChanges, MaxChanges)

NextOutside == Flow(OutsideDocs)

SpecOutside == InitOutside /\ [][NextOutside]_vars

\* preview_update on any answer of the completion API
NextPreview ==
    \/ StartPreview
    \/ ComputeRepoSummary
    \/ CallOpenAI(AllTexts, {<<>>})
    \/ ParseAIResponse

SpecPreview == Init /\ [][NextPreview]_vars

-----------------------------------------------------------------------------
(* Properties *)

PublishStages ==
    {"ensure_branch", "create_blobs", "create_tree_and_commit", "update_branch",
     "create_pull_request"}

\* the text is empty or all whitespace
AllSpace(s) == \A j \in 1..Len(s) : s[j] \in {" ", NL, CR, "\t"}

\* a required string argument of the current call is blank
RequiredBlank ==
    \/ AllSpace(args.request_text)
    \/ AllSpace(args.openai_key)
    \/ /\ entry = "request"
       /\ \/ AllSpace(args.gh_token)
          \/ AllSpace(args.gh_owner)
          \/ AllSpace(args.gh_repo)

\* C1: whenever request_update returns after apply_changes produced its
\* results list, the returned envelope has an "ok" flag and carries that list
\* under "applied", whichever call of the publication failed.
C1_AppliedAlwaysReturned ==
    (pc = "done" /\ entry = "request" /\ apply_result # <<>>)
        => /\ result.kind = "return"
           /\ "ok" \in result.keys
           /\ "applied" \in result.keys
           /\ result.applied = apply_result[1]

\* C2: no step of the publication, failing or not, changes a local file: the
\* filesystem stays as apply_changes left it.
C2_NoRollback == [][(pc \in PublishStages) => (fs' = fs)]_vars

\* C2 witness: the publication failed after a file was overwritten and backed up
C2_Witness ==
    /\ pc = "done"
    /\ apply_result # <<>>
    /\ ~result.ok
    /\ result.error = "update_branch: no answer"
    /\ fs # fs0
    /\ \E p \in Paths : Exists(fs0, FullPath(p)) /\ Exists(fs, BackupFile(FullPath(p)))

\* C3: a call of an entry point that has ended has returned a dict with a
\* boolean "ok"; no exception has left the entry point.
C3_Envelope ==
    pc = "done" => /\ result.kind = "return"
                   /\ "ok" \in result.keys
                   /\ result.ok \in BOOLEAN

\* C3 witness: preview_update ended on an answer that does not decode
C3_Witness ==
    /\ pc = "done"
    /\ entry = "preview"
    /\ response.text = <<"p", "{", "p", "}">>
    /\ result.error = "JSONDecodeError"

\* C4: a call with a blank required argument ends with ok = False, and no call
\* to the completion API, no call to GitHub and no change of a local file is made.
C4_ValidationFirst ==
    (pc # "idle" /\ RequiredBlank)
        => /\ pc = "done"
           /\ result.kind = "return"
           /\ ~result.ok
           /\ openai_calls = 0
           /\ ghlog = <<>>
           /\ fs = fs0

\* C4 witness: request_update with a whitespace-only repository name
C4_Witness ==
    /\ pc = "done"
    /\ entry = "request"
    /\ args.gh_repo = <<" ">>
    /\ args.request_text = <<"k">>
    /\ result.error = "Missing GitHub repo name"

\* where the file of a change and its backup are expected
Target(rel) == Location(FullPath(rel))
BackupLoc(rel) == <<"app", ".ai_patch_backups", rel[Len(rel)] \o ".bak">>

\* the entries of the backup store
BackupEntries(f) ==
    { l \in DOMAIN f : Len(l) = 3 /\ l[1] = "app" /\ l[2] = ".ai_patch_backups" }

\* apply_changes has applied the same modify change twice to a file that existed
TwiceModify ==
    /\ entry = "request"
    /\ Len(changes) = 2
    /\ changes[1] = changes[2]
    /\ changes[1].action = "modify"
    /\ idx = 3
    /\ Target(changes[1].path) \in DOMAIN fs0

\* C5 as stated: after the same modify change was applied twice, the file holds
\* the change's content and the backup store holds one entry for the basename,
\* with the content the file had before the first application.
C5_BackupKeepsFirst ==
    TwiceModify =>
        /\ fs[Target(changes[1].path)] = Utf8(changes[1].content)
        /\ BackupEntries(fs) = {BackupLoc(changes[1].path)}
        /\ fs[BackupLoc(changes[1].path)] = fs0[Target(changes[1].path)]

\* C5 amended: after the same modify change was applied twice, the file holds
\* the change's content and the backup store holds one entry for the basename,
\* with the content the file had before the second application, which is the
\* change's content.
C5_BackupKeepsLast ==
    TwiceModify =>
        /\ fs[Target(changes[1].path)] = Utf8(changes[1].content)
        /\ BackupEntries(fs) = {BackupLoc(changes[1].path)}
        /\ fs[BackupLoc(changes[1].path)] = Utf8(changes[1].content)

\* C5 witness: apply_changes returned after the two applications
C5_Witness == TwiceModify /\ pc = "ensure_branch"

\* C6: for a create or modify change, the step that saves the old version
\* copies the bytes of an existing target to <basename>.bak and writes nothing
\* for a missing target; the step that writes the content comes after it, finds
\* the backup equal to the target's bytes, and changes the target alone.
C6_BackupThenWrite ==
    [][ (Applying /\ ApplyAction(Current) \in {"create", "modify"} /\ pc' = "apply")
          => LET T == Target(Current.path)
                 B == BackupLoc(Current.path)
             IN IF phase = "begin"
                THEN /\ phase' = "write"
                     /\ IF T \in DOMAIN fs
                        THEN fs' = [l \in DOMAIN fs \cup {B} |->
                                        IF l = B THEN fs[T] ELSE fs[l]]
                        ELSE fs' = fs
                ELSE /\ T \in DOMAIN fs => (B \in DOMAIN fs /\ fs[B] = fs[T])
                     /\ fs' = [l \in DOMAIN fs \cup {T} |->
                                  IF l = T THEN Utf8(Current.content) ELSE fs[l]]
      ]_vars

\* C6 witness: a.txt held the old bytes and was modified
C6_Witness ==
    /\ pc = "ensure_branch"
    /\ changes = << [path |-> <<"a.txt">>, action |-> "modify", content |-> <<"E">>] >>
    /\ <<"app", "a.txt">> \in DOMAIN fs0
    /\ fs0[<<"app", "a.txt">>] = OldBytes
    /\ fs[<<"app", ".ai_patch_backups", "a.txt.bak">>] = OldBytes
    /\ fs[<<"app", "a.txt">>] = <<195, 137>>

\* apply_changes has applied a patch of one create change
OneCreate ==
    /\ entry = "request"
    /\ Len(changes) = 1
    /\ changes[1].action = "create"
    /\ idx = 2

C8_Delete ==
    [][ (Applying /\ phase = "begin" /\ ApplyAction(Current) = "delete")
          => LET T == Target(Current.path) IN
             IF T \notin DOMAIN fs
             THEN /\ pc' = "apply"
                  /\ result' = result
                  /\ fs' = fs
                  /\ results' = Append(results,
                        [path |-> Current.path, status |-> "not_found"])
                  /\ idx' = idx + 1
             ELSE pc' = "apply" =>
                  /\ fs' = [l \in DOMAIN fs \ {T} |-> fs[l]]
                  /\ results' = Append(results,
                        [path |-> Current.path, status |-> "deleted"])
                  /\ idx' = idx + 1
      ]_vars

\* C8 witness: a not_found was recorded and the change after it was written
C8_Witness ==
    /\ Len(results) = 2
    /\ results[1].status = "not_found"
    /\ results[2].status = "written"
    /\ fs0 = <<>>

\* a POST /git/trees was sent in the current flow
TreePosted == \E j \in 1..Len(ghlog) : ghlog[j] = "POST trees"

\* the paths of the changes whose action is create or modify
WritePaths ==
    { changes[j].path :
          j \in { k \in 1..Len(changes) : changes[k].action \in {"create", "modify"} } }

\* C9: the entries of the tree request are one regular-file blob entry for
\* each path of a create or modify change and nothing else, so a path that is
\* only deleted has no entry and keeps its base entry in the new commit.
C9_TreeEntries ==
    TreePosted =>
        /\ { it.path : it \in tree_items } = WritePaths
        /\ \A it \in tree_items : it.mode = "100644" /\ it.type = "blob"
        /\ \A p \in WritePaths : Cardinality({ it \in tree_items : it.path = p }) = 1
        /\ new_commit_sha # 0 =>
              \A p \in DOMAIN commits[base_sha].tree \ WritePaths :
                  /\ p \in DOMAIN commits[new_commit_sha].tree
                  /\ commits[new_commit_sha].tree[p] = commits[base_sha].tree[p]

\* C9 witness: a.txt was deleted locally and is still in the tree of the commit
C9_Witness ==
    /\ new_commit_sha # 0
    /\ Len(changes) = 2
    /\ changes[1].path = <<"d", "a.txt">> /\ changes[1].action = "modify"
    /\ changes[2].path = <<"a.txt">> /\ changes[2].action = "delete"
    /\ results[2].status = "deleted"
    /\ { it.path : it \in tree_items } = { <<"d", "a.txt">> }
    /\ <<"a.txt">> \in DOMAIN commits[new_commit_sha].tree

\* C10: once the host has answered the PATCH of update_branch for a ref that
\* exists, the ref points at the new commit, whatever its tip was.
C10_ForceUpdate ==
    ( /\ ghlog # <<>>
      /\ ghlog[Len(ghlog)] = "PATCH ref"
      /\ result.error # "update_branch: no answer"
      /\ new_branch \in DOMAIN refs )
        => refs[new_branch] = new_commit_sha

\* position of the "}" that closes the "{" at position j - 1 when depth is 1,
\* scanning from j; 0 when the text ends first
RECURSIVE CloseOf(_, _, _)
CloseOf(text, j, depth) ==
    IF j > Len(text) THEN 0
    ELSE IF text[j] = "{" THEN CloseOf(text, j + 1, depth + 1)
    ELSE IF text[j] = "}"
         THEN (IF depth = 1 THEN j ELSE CloseOf(text, j + 1, depth - 1))
         ELSE CloseOf(text, j + 1, depth)

\* the "{" of the text that have their closing "}"
BalancedOpens(text) ==
    { j \in Positions(text, "{") : CloseOf(text, j + 1, 1) # 0 }

\* the outermost balanced brace-delimited span of the text, <<>> if none
BalancedSpan(text) ==
    IF BalancedOpens(text) = {} THEN <<>>
    ELSE SubSeq(text, Min(BalancedOpens(text)),
                CloseOf(text, Min(BalancedOpens(text)) + 1, 1))

\* parse_ai_response has run in the current call
Parsed == pc = "done" /\ (result.ok \/ result.error \in {"ValueError", "JSONDecodeError"})

\* C13: parse_ai_response returns a document exactly when the text holds an
\* outermost balanced brace-delimited span and that span decodes, whatever
\* surrounds the span; a text without "{" or without "}" always fails.
C13_BalancedParse ==
    Parsed =>
        /\ result.ok <=> ( /\ BalancedSpan(response.text) # <<>>
                           /\ JsonObject(BalancedSpan(response.text)) )
        /\ (Positions(response.text, "{") = {} \/ Positions(response.text, "}") = {})
              => ~result.ok

\* the location is the base directory or below it
UnderBase(l) == Len(l) >= 1 /\ l[1] = "app"

\* the locations whose file was created, rewritten or removed in the current call
Touched ==
    { l \in DOMAIN fs \cup DOMAIN fs0 :
          \/ l \notin DOMAIN fs
          \/ l \notin DOMAIN fs0
          \/ fs[l] # fs0[l] }

\* C11: whatever the paths of the changes, absolute and ".." paths included,
\* every file apply_changes writes or deletes lies under the base directory.
C11_UnderBase == \A l \in Touched : UnderBase(l)

\* C12: from the start to the return of preview_update, whatever patch the
\* model returns, no file is created, modified or deleted (backup entries
\* included) and no request is sent to the version-control host.
C12_PreviewNoEffects ==
    entry = "preview" =>
        /\ fs = fs0
        /\ ghlog = <<>>
        /\ refs = InitialRefs
        /\ commits = InitialCommits
        /\ blobs = {}
        /\ pulls = {}

\* a preview has returned a patch of two changes, a write and a delete
C12_Witness ==
    /\ entry = "preview"
    /\ pc = "done"
    /\ result = PreviewOk
    /\ Len(response.changes) = 2
    /\ ApplyAction(response.changes[1]) = "modify"
    /\ ApplyAction(response.changes[2]) = "delete"
    /\ Exists(fs, FullPath(response.changes[2].path))

\* the call has returned after the answer to the pull-request creation
PullAnswered ==
    /\ pc = "done"
    /\ ghlog # <<>>
    /\ ghlog[Len(ghlog)] = "POST pulls"
    /\ result # RequestExcept("create_pull_request")

\* C14: once every remote step up to the update of the ref has succeeded, a
\* refused pull request raises nothing and is returned as {ok: false, error,
\* applied}, an accepted one as {ok: true, pr_url, summary, applied}; applied
\* is the complete list of local results in both.
C14_PullRequestEnvelope ==
    PullAnswered =>
        /\ result.kind = "return"
        /\ result.applied = results
        /\ Len(result.applied) = Len(changes)
        /\ IF new_branch \in pulls
           THEN /\ result.ok
                /\ result.keys = {"ok", "pr_url", "summary", "applied"}
           ELSE /\ ~result.ok
                /\ result.keys = {"ok", "error", "applied"}
                /\ result.error = "pr.text"

\* a pull request was refused after two changes were applied locally
C14_Witness ==
    /\ PullAnswered
    /\ new_branch \notin pulls
    /\ Len(result.applied) = 2
    /\ result.applied[1].status = "written"
    /\ refs[new_branch] = new_commit_sha

\* the requests of a publication of n files, in the order of the sub-steps
RemoteOrder(n) ==
    <<"GET ref", "POST refs">> \o Calls(n, "POST blobs")
        \o <<"GET commit", "POST trees", "POST commits", "PATCH ref", "POST pulls">>

IsPrefix(a, b) == Len(a) <= Len(b) /\ a = SubSeq(b, 1, Len(a))

Sent(call) == \E j \in 1..Len(ghlog) : ghlog[j] = call

\* the requests so far follow the order of the sub-steps
C15_Ordered == IsPrefix(ghlog, RemoteOrder(Len(FilesOf(changes))))

\* C15: the remote sub-steps run in the order ensureBranch, createBlobs,
\* createTree, createCommit, updateRef, openPullRequest, and a failure of any
\* sub-step before the last stops the publication: nothing is requested after
\* the creation of the branch ref unless the ref was created, no commit is
\* created unless every blob was, no pull request is opened unless the ref
\* was created and updated to the new commit.
C15_OrderedRaising ==
    /\ C15_Ordered
    /\ Len(ghlog) > 2 => new_branch \in DOMAIN refs
    /\ Sent("POST commits") =>
           \A j \in 1..Len(FilesOf(changes)) :
               GitBlobSha(FilesOf(changes)[j].content) \in blobs
    /\ Sent("POST pulls") =>
           /\ new_branch \in DOMAIN refs
           /\ refs[new_branch] = new_commit_sha

\* the stages of a flow, in the order of request_update
StageRank(p) ==
    CASE p = "idle" -> 0
      [] p = "summary" -> 1
      [] p = "call_openai" -> 2
      [] p = "parse" -> 3
      [] p = "apply" -> 4
      [] p \in PublishStages -> 5
      [] p = "done" -> 6

\* C16: in the apply flow the stages run in the order fingerprint, model
\* call, parse, local apply, remote publish without overlap: a file (backup
\* entries included) changes only in the local apply, after the model call
\* and the parse succeeded and before any request to the version-control
\* host; a request to the host is sent only after the applier has processed
\* every change.
C16_StageOrder ==
    [][ /\ StageRank(pc') >= StageRank(pc)
        /\ (fs' # fs) =>
              /\ pc = "apply"
              /\ entry = "request"
              /\ openai_calls = 1
              /\ ParseOutcome(response.text) = ""
              /\ changes = response.changes
              /\ ghlog' = <<>>
        /\ (ghlog' # ghlog) =>
              /\ pc \in PublishStages
              /\ Len(results) = Len(changes)
              /\ apply_result = <<results>>
              /\ fs' = fs
      ]_vars

\* two changes were applied and changed the files, then the publication
\* reached the pull request
C16_Witness ==
    /\ entry = "request"
    /\ Sent("POST pulls")
    /\ Len(changes) = 2
    /\ fs # fs0

\* the creation of the ref was answered in this step
RefPostAnswered ==
    /\ pc = "ensure_branch"
    /\ Len(ghlog') = Len(ghlog) + 2
    /\ result' # RequestExcept("ensure_branch: no answer")

\* C17: the commit of the publisher has exactly one parent, the tip of the
\* base branch read at the start of ensure_branch, and its tree is built on
\* the tree of that commit; when the creation of the ref is refused because
\* the ref exists, nothing is raised and the same base id is used.
C17_SingleParent ==
    [][ /\ (commits' # commits) =>
              /\ Len(commits') = Len(commits) + 1
              /\ SubSeq(commits', 1, Len(commits)) = commits
              /\ base_sha = refs["main"]
              /\ commits'[Len(commits')].parents = <<refs["main"]>>
              /\ commits'[Len(commits')].tree =
                     Overlay(commits[refs["main"]].tree, tree_items')
        /\ (RefPostAnswered /\ new_branch \in DOMAIN refs) =>
              /\ pc' = "create_blobs"
              /\ result' = result
              /\ refs' = refs
              /\ base_sha' = refs["main"]
      ]_vars

\* the branch existed with a tip other than the base when the second flow
\* made its commit
C17_Witness ==
    /\ flows = 2
    /\ pc = "update_branch"
    /\ new_branch \in DOMAIN refs
    /\ refs[new_branch] # base_sha
    /\ new_commit_sha = Len(commits)
    /\ commits[new_commit_sha].parents = <<base_sha>>

\* the files after one change has been applied without failure
EffectOfChange(f, ch) ==
    LET full == FullPath(ch.path) IN
    IF ApplyAction(ch) \in {"create", "modify"}
    THEN WriteText(IF Exists(f, full) THEN BackupOld(f, full) ELSE f,
                   full, ch.content)
    ELSE IF ApplyAction(ch) = "delete" /\ Exists(f, full)
    THEN Remove(f, full)
    ELSE f

\* the files after the changes have been applied in order
RECURSIVE EffectOf(_, _)
EffectOf(f, cs) ==
    IF cs = <<>> THEN f ELSE EffectOf(EffectOfChange(f, Head(cs)), Tail(cs))

\* apply_changes has failed on the change of index idx
ApplyFailed == pc = "done" /\ result = RequestExcept("OSError")

\* C18: when an I/O failure occurs on the k-th change, the effects of the
\* changes 1..k-1 remain on the files (with at most the backup of the k-th
\* target and its truncation added), the changes after it are not processed,
\* the failure is returned as an error with no list of results, and nothing
\* is requested from the version-control host.
C18_NotTransactional ==
    ApplyFailed =>
        LET before == EffectOf(fs0, SubSeq(changes, 1, idx - 1)) IN
        /\ idx \in 1..Len(changes)
        /\ Len(results) = idx - 1
        /\ \/ fs = before
           \/ /\ phase = "write"
              /\ LET saved == IF Exists(before, CurrentFull)
                               THEN BackupOld(before, CurrentFull) ELSE before
                 IN fs \in { saved, WriteBytes(saved, CurrentFull, <<>>) }
        /\ apply_result = <<>>
        /\ "applied" \notin result.keys
        /\ result.applied = <<>>
        /\ ghlog = <<>>
        /\ remote = <<InitialRefs, InitialCommits, {}, {}>>

\* the second of two changes failed after the first had rewritten a file
C18_Witness ==
    /\ ApplyFailed
    /\ Len(changes) = 2
    /\ idx = 2
    /\ results = <<Status(changes[1].path, "written")>>
    /\ fs # fs0

\* apply_changes has returned its list
ApplyReturned == apply_result # <<>>

\* the action of the change is a value other than create, modify and delete
OtherAction(ch) == ch.action \notin {"create", "modify", "delete", NoKey}

\* C19: without I/O failure apply_changes returns one result per change, in
\* the order of the changes and with the change's path, with a status among
\* written, deleted, not_found and unknown_action; a change whose action is
\* another value than create, modify and delete gets unknown_action, changes
\* no file and no backup entry, and the changes after it are processed.
C19_OneResultPerChange ==
    [][ /\ ApplyReturned' =>
              /\ apply_result' = <<results'>>
              /\ Len(results') = Len(changes')
              /\ \A j \in 1..Len(changes') :
                    /\ results'[j].path = changes'[j].path
                    /\ results'[j].status \in
                          {"written", "deleted", "not_found", "unknown_action"}
                    /\ OtherAction(changes'[j])
                          <=> results'[j].status = "unknown_action"
        /\ (Applying /\ OtherAction(Current)) =>
              /\ fs' = fs
              /\ pc' = "apply"
              /\ result' = result
              /\ idx' = idx + 1
              /\ results' = Append(results, Status(Current.path, "unknown_action"))
      ]_vars

\* an unknown action came first and the change after it was written
C19_Witness ==
    /\ ApplyReturned
    /\ Len(changes) = 2
    /\ changes[1].action = "rename"
    /\ results[1].status = "unknown_action"
    /\ results[2].status = "written"
    /\ fs # fs0

\* apply_changes has returned after two writes, to two existing files of
\* the same name in different directories
TwoSameName ==
    /\ ApplyReturned
    /\ Len(changes) = 2
    /\ \A j \in 1..2 :
          /\ ApplyAction(changes[j]) \in {"create", "modify"}
          /\ Target(changes[j].path) \in DOMAIN fs0
    /\ Target(changes[1].path) # Target(changes[2].path)
    /\ Basename(changes[1].path) = Basename(changes[2].path)

\* C20: backups are keyed by base name only: after a patch has overwritten
\* two existing files of the same name in different directories, the backup
\* store holds the single entry <basename>.bak, with the prior bytes of the
\* file overwritten last; the prior bytes of the first are in no entry.
C20_BackupCollision ==
    TwoSameName =>
        /\ BackupEntries(fs) = { BackupLoc(changes[2].path) }
        /\ fs[BackupLoc(changes[2].path)] = fs0[Target(changes[2].path)]
        /\ \A l \in BackupEntries(fs) : fs[l] # fs0[Target(changes[1].path)]

\* C20 witness: d/a.txt was overwritten first, then a.txt
C20_Witness ==
    /\ TwoSameName
    /\ changes[1].path = <<"d", "a.txt">>
    /\ changes[2].path = <<"a.txt">>
    /\ fs0[Target(changes[1].path)] = OtherBytes
    /\ fs0[Target(changes[2].path)] = OldBytes

\* the indices of the changes reported "written" by apply_changes
WrittenIdx == { j \in 1..Len(results) : results[j].status = "written" }

\* C21: local and remote agree on what was written: once the tree has been
\* posted, every change reported written has its blob among the created
\* blobs and an entry for its path in the tree, and every path with a tree
\* entry was reported written; changes without the action key included.
C21_LocalRemoteAgree ==
    TreePosted =>
        /\ \A j \in WrittenIdx :
              /\ GitBlobSha(changes[j].content) \in blobs
              /\ \E it \in tree_items : it.path = results[j].path
        /\ \A it \in tree_items :
              \E j \in WrittenIdx : results[j].path = it.path

====
